---------------------------- MODULE Spec2Model ----------------------------
(***************************************************************************)
(* microunit: a header-only unit test library (src/microunit.h) and its    *)
(* sample client (src/sample.cpp).                                         *)
(*                                                                         *)
(* The model is a state machine of the singleton UnitTester: the catalog   *)
(* unitfunction_map_, the registrations made through RegisterFunction,     *)
(* the position of Run() in its loop over the catalog, and the position of *)
(* the unit function Run() is currently executing.  A unit function is     *)
(* the list of statements of its body; the macros PASS, FAIL, ASSERT_TRUE  *)
(* and ASSERT_FALSE are modelled by their expansions.                      *)
(***************************************************************************)
EXTENDS Integers, Sequences, FiniteSets

(***************************************************************************)
(* Bounds of the model.                                                    *)
(***************************************************************************)
\* number of RegisterFunction calls in one behaviour
MaxRegs == 2
\* iterations of the for loops of the unit functions (1000 in sample.cpp)
LoopCount == 3
\* first argument at which DoubleFlawed differs from Double (100 in sample.cpp)
FlawFrom == 1
\* number of statements of a generated unit function body
MaxBodyLen == 2

(***************************************************************************)
(* Names: std::string keys, as sequences of character codes.  The three    *)
(* names cover a proper prefix (<<1>> and <<1, 2>>) and a shorter string   *)
(* that is greater than a longer one (<<2>> and <<1, 2>>).                 *)
(***************************************************************************)
Names == { <<1>>, <<1, 2>>, <<2>> }

\* the past-the-end iterator of the map; no key is the empty string here
End == << >>

\* faulty variant of StringLess: the shorter string first, then the characters
StringLessByLength(a, b) ==
    \/ Len(a) < Len(b)
    \/ /\ Len(a) = Len(b)
       /\ \E k \in 1..Len(a) : a[k] < b[k] /\ \A j \in 1..(k - 1) : a[j] = b[j]

\* std::less<std::string>: lexicographic comparison of the characters, a
\* proper prefix being less than the longer string
RECURSIVE StringLess(_, _)
StringLess(a, b) ==
    IF b = << >> THEN FALSE
    ELSE IF a = << >> THEN TRUE
    ELSE IF Head(a) < Head(b) THEN TRUE
    ELSE IF Head(b) < Head(a) THEN FALSE
    ELSE StringLess(Tail(a), Tail(b))

(***************************************************************************)
(* std::map<std::string, UnitFunction>: a function from the keys present   *)
(* to the mapped values, iterated in the order of StringLess.              *)
(***************************************************************************)
EmptyMap == [k \in {} |-> 0]

\* faulty variant of MapEmplace: the mapped value of a present key is overwritten
MapAssign(m, name, function) ==
    [k \in (DOMAIN m) \cup {name} |-> IF k = name THEN function ELSE m[k]]

\* std::map::emplace: inserts only when the key is absent
MapEmplace(m, name, function) ==
    IF name \in DOMAIN m
    THEN m
    ELSE [k \in (DOMAIN m) \cup {name} |-> IF k = name THEN function ELSE m[k]]

\* the least key of a non-empty set of keys
LeastKey(S) == CHOOSE k \in S : \A j \in S : j = k \/ StringLess(k, j)

\* std::map::begin
MapBegin(m) == IF DOMAIN m = {} THEN End ELSE LeastKey(DOMAIN m)

\* operator++ of a map iterator standing at key k
MapNext(m, k) ==
    LET after == { j \in DOMAIN m : StringLess(k, j) }
    IN  IF after = {} THEN End ELSE LeastKey(after)

(***************************************************************************)
(* The client code of sample.cpp.                                          *)
(***************************************************************************)
Double(n) == 2 * n

DoubleFlawed(n) == IF n < FlawFrom THEN 2 * n ELSE 3 * n

\* the conditions the unit functions test, named by their source text, and
\* their values when the loop variable is i
Conditions ==
    { "2 + 2 == 4", "2 + 2 == 3",
      "Double(i) != 2 * i", "DoubleFlawed(i) != 2 * i", "DoubleFlawed(i) == 2 * i" }

Eval(condition, i) ==
    CASE condition = "2 + 2 == 4" -> 2 + 2 = 4
      [] condition = "2 + 2 == 3" -> 2 + 2 = 3
      [] condition = "Double(i) != 2 * i" -> Double(i) # 2 * i
      [] condition = "DoubleFlawed(i) != 2 * i" -> DoubleFlawed(i) # 2 * i
      [] condition = "DoubleFlawed(i) == 2 * i" -> DoubleFlawed(i) = 2 * i

(***************************************************************************)
(* Statements of a unit function body.  Every statement is a record        *)
(* [op, cond, body]: op names the statement, cond is the condition of an   *)
(* assertion or of an if, body holds the statements an if or a for         *)
(* encloses.  "STMT" is a client statement that does not touch the result. *)
(***************************************************************************)
Stmt(op, cond, body) == [op |-> op, cond |-> cond, body |-> body]

PassStmt == Stmt("PASS", "", << >>)
FailStmt == Stmt("FAIL", "", << >>)
ClientStmt == Stmt("STMT", "", << >>)
AssertTrueStmt(c) == Stmt("ASSERT_TRUE", c, << >>)
AssertFalseStmt(c) == Stmt("ASSERT_FALSE", c, << >>)
IfStmt(c, then) == Stmt("IF", c, << then >>)
ForStmt(body) == Stmt("FOR", "", body)
\* UnitTester::RegisterFunction(name, function) called in a unit function
RegisterStmt(name, function) ==
    [op |-> "REGISTER", cond |-> "", body |-> << [name |-> name, function |-> function] >>]
\* for (;;) { } : a statement that never completes
HangStmt == Stmt("HANG", "", << >>)

\* a unit function: its symbol and its body
Unit(sym, body) == [sym |-> sym, body |-> body]

Test_Two_Plus_Two == Unit("Test_Two_Plus_Two", << AssertTrueStmt("2 + 2 == 4") >>)

Test_Flawed_Two_Plus_Two ==
    Unit("Test_Flawed_Two_Plus_Two", << AssertTrueStmt("2 + 2 == 3") >>)

Test_Double ==
    Unit("Test_Double", << ForStmt(<< IfStmt("Double(i) != 2 * i", FailStmt) >>) >>)

Test_Double_Flawed ==
    Unit("Test_Double_Flawed",
         << ForStmt(<< IfStmt("DoubleFlawed(i) != 2 * i", FailStmt) >>) >>)

\* the unit functions of sample.cpp
SampleUnits ==
    { Test_Two_Plus_Two, Test_Flawed_Two_Plus_Two, Test_Double, Test_Double_Flawed }


(***************************************************************************)
(* The bodies the unit-level specification draws from: every sequence of   *)
(* at most MaxBodyLen statements, a statement being a macro, a client      *)
(* statement, or a for loop around an assertion or a guarded macro.        *)
(***************************************************************************)
TopAtoms ==
    { PassStmt, FailStmt, ClientStmt }
    \cup { AssertTrueStmt(c) : c \in { "2 + 2 == 4", "2 + 2 == 3" } }
    \cup { AssertFalseStmt(c) : c \in { "2 + 2 == 4", "2 + 2 == 3" } }

LoopAtoms ==
    { AssertTrueStmt("DoubleFlawed(i) == 2 * i"),
      AssertFalseStmt("DoubleFlawed(i) != 2 * i"),
      IfStmt("DoubleFlawed(i) != 2 * i", FailStmt),
      IfStmt("DoubleFlawed(i) != 2 * i", PassStmt),
      IfStmt("Double(i) != 2 * i", FailStmt) }

LoopStmts ==
    { ForStmt(<< a >>) : a \in LoopAtoms }
    \cup { ForStmt(<< a, ClientStmt >>) : a \in LoopAtoms }

Statements == TopAtoms \cup LoopStmts

Bodies == UNION { [1..n -> Statements] : n \in 0..MaxBodyLen }

GeneratedUnits == { Unit("unit", b) : b \in Bodies }

(***************************************************************************)
(* State.                                                                  *)
(***************************************************************************)
VARIABLES
    unitfunction_map_,  \* the catalog of the singleton UnitTester
    regLog,             \* history: the RegisterFunction calls made, in order
    pc,                 \* where Run() stands: "idle", "loop" or "call"
    unit,               \* Run's loop iterator: the key it stands at, or End
    failures,           \* Run's local vector of failing names
    result,             \* Run's local UnitFunctionResult: << >> or << record >>
    frame,              \* the unit function being executed and its position
    trace,              \* what the current Run() printed, called and executed
    outcomes,           \* history: (name, success) of the cases of this Run()
    runs,               \* history: the last two Run() calls that returned, latest first
    atBegin,            \* history: the catalog when the current Run() was called
    exitCode            \* the exit code of the process: << >> while it runs

vars ==
    << unitfunction_map_, regLog, pc, unit, failures, result, frame, trace,
       outcomes, runs, atBegin, exitCode >>

\* faulty variant of UnitFunctionResult: the member initialised to false
UnitFunctionResultFalse == [success |-> FALSE]

\* struct UnitFunctionResult { bool success{ true }; }
UnitFunctionResult == [success |-> TRUE]

\* events of the trace
Cout(text, arg) == [ev |-> "print", text |-> text, arg |-> arg]
CallEvent(name, function) == [ev |-> "call", text |-> function.sym, arg |-> << name, function >>]
ExecEvent(s, fr) == [ev |-> "exec", text |-> s.op, arg |-> << fr.ip, fr.lip, fr.i >>]

\* the two halves of the separator, as the preprocessor concatenates them
MICROUNIT_SEPARATOR ==
    Cout("----------------------------------------"
           \o "----------------------------------------", << >>)

(***************************************************************************)
(* The macros.  Each maps the result record r the function was given to    *)
(* what the expansion prints, the record afterwards, and whether the       *)
(* function returns.                                                       *)
(***************************************************************************)
Continue(r) == [prints |-> << >>, result |-> r, returns |-> FALSE]

\* faulty variant of PASS: without the return
PassNoReturn(r) ==
    [prints |-> << >>, result |-> [r EXCEPT !.success = TRUE], returns |-> FALSE]

\* #define PASS() { __microunit_testresult->success = true; return; }
PASS(r) == [prints |-> << >>, result |-> [r EXCEPT !.success = TRUE], returns |-> TRUE]

\* faulty variant of FAIL: without the return
FailNoReturn(r) ==
    [prints |-> << Cout("[    ] Test failed ", << >>) >>,
     result |-> [r EXCEPT !.success = FALSE],
     returns |-> FALSE]

\* #define FAIL() { std::cout << ...; __microunit_testresult->success = false; return; }
FAIL(r) ==
    [prints |-> << Cout("[    ] Test failed ", << >>) >>,
     result |-> [r EXCEPT !.success = FALSE],
     returns |-> TRUE]

\* faulty variant of ASSERT_TRUE: the failure is recorded and the function goes on
AssertTrueNoReturn(condition, i, r) ==
    IF ~ Eval(condition, i)
    THEN [prints |-> << Cout("[    ] Test Assert failed: ", << condition >>),
                        Cout("[    ] Test failed ", << >>) >>,
          result |-> [r EXCEPT !.success = FALSE],
          returns |-> FALSE]
    ELSE Continue(r)

\* faulty variant of ASSERT_TRUE: the line of FAIL comes before the line of
\* the assertion
AssertTrueFailFirst(condition, i, r) ==
    IF ~ Eval(condition, i)
    THEN LET f == FAIL(r)
         IN  [f EXCEPT !.prints =
                 f.prints \o << Cout("[    ] Test Assert failed: ", << condition >>) >>]
    ELSE Continue(r)

\* #define ASSERT_TRUE(condition) if(!(condition)) { std::cout << ...; FAIL(); }
ASSERT_TRUE(condition, i, r) ==
    IF ~ Eval(condition, i)
    THEN LET f == FAIL(r)
         IN  [f EXCEPT !.prints =
                 << Cout("[    ] Test Assert failed: ", << condition >>) >> \o f.prints]
    ELSE Continue(r)

\* faulty variant of ASSERT_FALSE: the polarity of ASSERT_TRUE
AssertFalseInverted(condition, i, r) ==
    IF ~ Eval(condition, i)
    THEN [prints |-> << Cout("[    ] Test Assert failed: ", << condition >>),
                        Cout("[    ] Test failed ", << >>) >>,
          result |-> [r EXCEPT !.success = FALSE],
          returns |-> TRUE]
    ELSE Continue(r)

\* #define ASSERT_FALSE(condition) if((condition)) { std::cout << ...; FAIL(); }
ASSERT_FALSE(condition, i, r) ==
    IF Eval(condition, i)
    THEN LET f == FAIL(r)
         IN  [f EXCEPT !.prints =
                 << Cout("[    ] Test Assert failed: ", << condition >>) >> \o f.prints]
    ELSE Continue(r)

\* a statement that encloses no other
Simple(s, i, r) ==
    CASE s.op = "PASS" -> PASS(r)
      [] s.op = "FAIL" -> FAIL(r)
      [] s.op = "ASSERT_TRUE" -> ASSERT_TRUE(s.cond, i, r)
      [] s.op = "ASSERT_FALSE" -> ASSERT_FALSE(s.cond, i, r)
      [] s.op = "STMT" -> Continue(r)
      [] s.op = "REGISTER" -> Continue(r)

\* if (cond) { then }
Effect(s, i, r) ==
    IF s.op = "IF"
    THEN IF Eval(s.cond, i) THEN Simple(s.body[1], i, r) ELSE Continue(r)
    ELSE Simple(s, i, r)

(***************************************************************************)
(* The position of a unit function.  ip is the index of the statement of   *)
(* the body it stands at; inside a for loop lip is the index in the loop's *)
(* body and i the loop variable; lip = 0 at a for statement is the loop    *)
(* test.  done: the function has returned.                                 *)
(***************************************************************************)
NoUnit == Unit("", << >>)
NoFrame == [fn |-> NoUnit, ip |-> 0, lip |-> 0, i |-> 0, done |-> TRUE]

\* the call unit.second(&result)
Call(function) ==
    [fn |-> function, ip |-> 1, lip |-> 0, i |-> 0, done |-> function.body = << >>]

TopStmt(fr) == fr.fn.body[fr.ip]

AtLoopTest(fr) == TopStmt(fr).op = "FOR" /\ fr.lip = 0

CurStmt(fr) == IF TopStmt(fr).op = "FOR" THEN TopStmt(fr).body[fr.lip] ELSE TopStmt(fr)

\* past the statement at ip: the next one, or the closing brace of the function
NextTop(fr) ==
    [fr EXCEPT !.ip = fr.ip + 1, !.lip = 0, !.i = 0, !.done = fr.ip + 1 > Len(fr.fn.body)]

\* for (int i = 0; i < LoopCount; ++i): the test
LoopTest(fr) == IF fr.i < LoopCount THEN [fr EXCEPT !.lip = 1] ELSE NextTop(fr)

\* past a statement that did not return
Advance(fr) ==
    IF TopStmt(fr).op = "FOR"
    THEN IF fr.lip < Len(TopStmt(fr).body)
         THEN [fr EXCEPT !.lip = fr.lip + 1]
         ELSE [fr EXCEPT !.lip = 0, !.i = fr.i + 1]
    ELSE NextTop(fr)

\* a return statement
Return(fr) == [fr EXCEPT !.done = TRUE]

(***************************************************************************)
(* Initially nothing is registered and Run() has not been called.          *)
(***************************************************************************)
Init ==
    /\ unitfunction_map_ = EmptyMap
    /\ regLog = << >>
    /\ pc = "idle"
    /\ unit = End
    /\ failures = << >>
    /\ result = << >>
    /\ frame = NoFrame
    /\ trace = << >>
    /\ outcomes = << >>
    /\ runs = << >>
    /\ atBegin = EmptyMap
    /\ exitCode = << >>

\* faulty variant of RegisterFunction: Instance() yields a new UnitTester
RegisterFunctionFreshInstance(name, function) ==
    /\ pc = "idle"
    /\ Len(regLog) < MaxRegs
    /\ unitfunction_map_' = MapEmplace(EmptyMap, name, function)
    /\ regLog' = Append(regLog, [name |-> name, function |-> function])
    /\ UNCHANGED << pc, unit, failures, result, frame, trace, outcomes, runs, atBegin, exitCode >>

(***************************************************************************)
(* UnitTester::RegisterFunction(name, function), called outside Run():     *)
(* by a Registrator during static initialisation, or by the host.          *)
(***************************************************************************)
RegisterFunction(name, function) ==
    /\ pc = "idle"
    /\ Len(regLog) < MaxRegs
    /\ unitfunction_map_' = MapEmplace(unitfunction_map_, name, function)
    /\ regLog' = Append(regLog, [name |-> name, function |-> function])
    /\ UNCHANGED << pc, unit, failures, result, frame, trace, outcomes, runs, atBegin, exitCode >>

(***************************************************************************)
(* UnitTester::Run().                                                      *)
(***************************************************************************)
\* faulty variant of RunBegin: the vector of failures outlives the call
RunBeginKeepFailures ==
    /\ pc = "idle"
    /\ pc' = "loop"
    /\ unit' = MapBegin(unitfunction_map_)
    /\ trace' = << >>
    /\ outcomes' = << >>
    /\ atBegin' = unitfunction_map_
    /\ UNCHANGED << unitfunction_map_, regLog, failures, result, frame, runs, exitCode >>

\* the call, the empty vector of failures, and the initialisation of the loop
RunBegin ==
    /\ pc = "idle"
    /\ pc' = "loop"
    /\ failures' = << >>
    /\ unit' = MapBegin(unitfunction_map_)
    /\ trace' = << >>
    /\ outcomes' = << >>
    /\ atBegin' = unitfunction_map_
    /\ UNCHANGED << unitfunction_map_, regLog, result, frame, runs, exitCode >>

\* faulty variant of RunCase: one result for the whole loop, never reset
RunCaseStale ==
    /\ pc = "loop"
    /\ unit # End
    /\ pc' = "call"
    /\ result' = << [success |-> failures = << >>] >>
    /\ frame' = Call(unitfunction_map_[unit])
    /\ trace' = trace \o << MICROUNIT_SEPARATOR,
                            Cout("[    ] Test case '", unit),
                            CallEvent(unit, unitfunction_map_[unit]) >>
    /\ UNCHANGED << unitfunction_map_, regLog, unit, failures, outcomes, runs, atBegin, exitCode >>

\* the loop body up to the call of the unit function
RunCase ==
    /\ pc = "loop"
    /\ unit # End
    /\ pc' = "call"
    /\ result' = << UnitFunctionResult >>
    /\ frame' = Call(unitfunction_map_[unit])
    /\ trace' = trace \o << MICROUNIT_SEPARATOR,
                            Cout("[    ] Test case '", unit),
                            CallEvent(unit, unitfunction_map_[unit]) >>
    /\ UNCHANGED << unitfunction_map_, regLog, unit, failures, outcomes, runs, atBegin, exitCode >>

\* the unit function evaluates the test of its for loop
UnitLoopTest ==
    /\ pc = "call"
    /\ ~ frame.done
    /\ AtLoopTest(frame)
    /\ frame' = LoopTest(frame)
    /\ UNCHANGED << unitfunction_map_, regLog, pc, unit, failures, result, trace,
                    outcomes, runs, atBegin, exitCode >>

\* the catalog after statement s: a call of RegisterFunction emplaces
Registering(m, s) ==
    IF s.op = "REGISTER" THEN MapEmplace(m, s.body[1].name, s.body[1].function) ELSE m

\* the unit function stands at a statement that never completes
UnitHang ==
    /\ pc = "call"
    /\ ~ frame.done
    /\ ~ AtLoopTest(frame)
    /\ CurStmt(frame).op = "HANG"
    /\ UNCHANGED vars

\* the unit function executes the statement it stands at
UnitStatement ==
    /\ pc = "call"
    /\ ~ frame.done
    /\ ~ AtLoopTest(frame)
    /\ CurStmt(frame).op # "HANG"
    /\ LET e == Effect(CurStmt(frame), frame.i, result[1])
       IN  /\ result' = << e.result >>
           /\ trace' = trace \o << ExecEvent(CurStmt(frame), frame) >> \o e.prints
           /\ frame' = IF e.returns THEN Return(frame) ELSE Advance(frame)
    /\ unitfunction_map_' = Registering(unitfunction_map_, CurStmt(frame))
    /\ regLog' = IF CurStmt(frame).op = "REGISTER"
                 THEN Append(regLog, CurStmt(frame).body[1])
                 ELSE regLog
    /\ UNCHANGED << pc, unit, failures, outcomes, runs, atBegin, exitCode >>

\* faulty variant of OutcomeLine: the two texts exchanged
OutcomeLineInverted(r) ==
    IF r.success THEN Cout("[!!!!] Failure", << >>) ELSE Cout("[    ] Success", << >>)

\* the outcome line printed for a result
OutcomeLine(r) ==
    IF r.success THEN Cout("[    ] Success", << >>) ELSE Cout("[!!!!] Failure", << >>)

\* faulty variant of RecordFailure: the name is recorded whatever the result
RecordFailureAlways(fs, name, r) == Append(fs, name)

\* faulty variant of RecordFailure: the name is put at the front
RecordFailureFront(fs, name, r) == IF ~ r.success THEN << name >> \o fs ELSE fs

\* if (!result.success) failures.push_back(unit.first)
RecordFailure(fs, name, r) == IF ~ r.success THEN Append(fs, name) ELSE fs

\* faulty variant of RunRecord: a failure leaves the loop
RunRecordAbort ==
    /\ pc = "call"
    /\ frame.done
    /\ pc' = "loop"
    /\ trace' = Append(trace, OutcomeLine(result[1]))
    /\ failures' = RecordFailure(failures, unit, result[1])
    /\ outcomes' = Append(outcomes, [name |-> unit, success |-> result[1].success])
    /\ unit' = IF result[1].success THEN MapNext(unitfunction_map_, unit) ELSE End
    /\ result' = << >>
    /\ frame' = NoFrame
    /\ UNCHANGED << unitfunction_map_, regLog, runs, atBegin, exitCode >>

\* faulty variant of RunRecord: the entry of a failing case is erased
RunRecordErase ==
    /\ pc = "call"
    /\ frame.done
    /\ pc' = "loop"
    /\ trace' = Append(trace, OutcomeLine(result[1]))
    /\ failures' = RecordFailure(failures, unit, result[1])
    /\ outcomes' = Append(outcomes, [name |-> unit, success |-> result[1].success])
    /\ unit' = MapNext(unitfunction_map_, unit)
    /\ result' = << >>
    /\ frame' = NoFrame
    /\ unitfunction_map_' =
           IF result[1].success
           THEN unitfunction_map_
           ELSE [k \in (DOMAIN unitfunction_map_) \ {unit} |-> unitfunction_map_[k]]
    /\ UNCHANGED << regLog, runs, atBegin, exitCode >>

\* faulty variant of RunRecord: the loop runs over a copy of the catalog taken
\* when Run() was called
RunRecordSnapshot ==
    /\ pc = "call"
    /\ frame.done
    /\ pc' = "loop"
    /\ trace' = Append(trace, OutcomeLine(result[1]))
    /\ failures' = RecordFailure(failures, unit, result[1])
    /\ outcomes' = Append(outcomes, [name |-> unit, success |-> result[1].success])
    /\ unit' = MapNext(atBegin, unit)
    /\ result' = << >>
    /\ frame' = NoFrame
    /\ UNCHANGED << unitfunction_map_, regLog, runs, atBegin, exitCode >>

\* faulty variant of RunRecord: Run() gives up on a unit function that has
\* not returned
RunRecordTimeout ==
    /\ pc = "call"
    /\ pc' = "loop"
    /\ trace' = Append(trace, OutcomeLine(result[1]))
    /\ failures' = RecordFailure(failures, unit, result[1])
    /\ outcomes' = Append(outcomes, [name |-> unit, success |-> result[1].success])
    /\ unit' = MapNext(unitfunction_map_, unit)
    /\ result' = << >>
    /\ frame' = NoFrame
    /\ UNCHANGED << unitfunction_map_, regLog, runs, atBegin, exitCode >>

\* the loop body after the unit function has returned, and the increment
RunRecord ==
    /\ pc = "call"
    /\ frame.done
    /\ pc' = "loop"
    /\ trace' = Append(trace, OutcomeLine(result[1]))
    /\ failures' = RecordFailure(failures, unit, result[1])
    /\ outcomes' = Append(outcomes, [name |-> unit, success |-> result[1].success])
    /\ unit' = MapNext(unitfunction_map_, unit)
    /\ result' = << >>
    /\ frame' = NoFrame
    /\ UNCHANGED << unitfunction_map_, regLog, runs, atBegin, exitCode >>

\* faulty variant of Summary: an empty vector of failures is reported as a failure
SummaryEmptyFails(fs) ==
    [prints |-> << MICROUNIT_SEPARATOR, MICROUNIT_SEPARATOR,
                   Cout("[!!!!] Failed  test cases:", << Len(fs) >>) >>
                \o [k \in 1..Len(fs) |-> Cout("> ", fs[k])]
                \o << MICROUNIT_SEPARATOR >>,
     ret |-> FALSE]

\* the summary: what Run() prints after the loop and the value it returns;
\* the line "Failed <size> test cases:" carries failures.size() as its argument
Summary(fs) ==
    IF fs = << >>
    THEN [prints |-> << MICROUNIT_SEPARATOR, MICROUNIT_SEPARATOR,
                        Cout("[    ] All tests passed", << >>),
                        MICROUNIT_SEPARATOR >>,
          ret |-> TRUE]
    ELSE [prints |-> << MICROUNIT_SEPARATOR, MICROUNIT_SEPARATOR,
                        Cout("[!!!!] Failed  test cases:", << Len(fs) >>) >>
                     \o [k \in 1..Len(fs) |-> Cout("> ", fs[k])]
                     \o << MICROUNIT_SEPARATOR >>,
          ret |-> FALSE]

\* the end of the loop, the summary and the return
RunSummary ==
    /\ pc = "loop"
    /\ unit = End
    /\ pc' = "idle"
    /\ trace' = trace \o Summary(failures).prints
    /\ runs' = << [map |-> unitfunction_map_,
                   before |-> atBegin,
                   outcomes |-> outcomes,
                   failures |-> failures,
                   trace |-> trace \o Summary(failures).prints,
                   ret |-> Summary(failures).ret] >> \o (IF runs = << >> THEN << >> ELSE << runs[1] >>)
    /\ UNCHANGED << unitfunction_map_, regLog, unit, failures, result, frame, outcomes,
                    atBegin, exitCode >>

(***************************************************************************)
(* The library with the unit functions of sample.cpp, registered under     *)
(* any names in any order.                                                 *)
(***************************************************************************)
Register == \E name \in Names, function \in SampleUnits : RegisterFunction(name, function)

Next ==
    \/ Register
    \/ RunBegin
    \/ RunCase
    \/ UnitLoopTest
    \/ UnitStatement
    \/ RunRecord
    \/ RunSummary

Spec == Init /\ [][Next]_vars

(***************************************************************************)
(* The library with one unit function of any body, declared with UNIT.     *)
(***************************************************************************)
UnitName == << 1 >>

DeclareUnit ==
    /\ regLog = << >>
    /\ \E function \in GeneratedUnits : RegisterFunction(UnitName, function)

NextUnit ==
    \/ DeclareUnit
    \/ RunBegin
    \/ RunCase
    \/ UnitLoopTest
    \/ UnitStatement
    \/ RunRecord
    \/ RunSummary

SpecUnit == Init /\ [][NextUnit]_vars

(***************************************************************************)
(* The program of sample.cpp: the Registrators run during static           *)
(* initialisation, then main calls Run() once and returns.                 *)
(***************************************************************************)
\* a Registrator constructed before main
StaticRegister ==
    /\ runs = << >>
    /\ exitCode = << >>
    /\ Register

\* int main() { microunit::UnitTester::Run(); ...
MainRun ==
    /\ runs = << >>
    /\ exitCode = << >>
    /\ RunBegin

\* ... } : the value of Run() is discarded and main returns 0
MainReturn ==
    /\ pc = "idle"
    /\ runs # << >>
    /\ exitCode = << >>
    /\ exitCode' = << 0 >>
    /\ UNCHANGED << unitfunction_map_, regLog, pc, unit, failures, result, frame, trace,
                    outcomes, runs, atBegin >>

NextMain ==
    \/ StaticRegister
    \/ MainRun
    \/ RunCase
    \/ UnitLoopTest
    \/ UnitStatement
    \/ RunRecord
    \/ RunSummary
    \/ MainReturn

SpecMain == Init /\ [][NextMain]_vars

(***************************************************************************)
(* The library with unit functions that call RegisterFunction themselves,  *)
(* while Run() iterates over the catalog; Run() is called once.            *)
(***************************************************************************)
PlainUnits == { Test_Two_Plus_Two, Test_Flawed_Two_Plus_Two }

RegistrarUnits ==
    { Unit("registrar", << RegisterStmt(name, function) >>) :
          name \in Names, function \in PlainUnits }

RegisterNested ==
    /\ runs = << >>
    /\ \E name \in Names, function \in PlainUnits \cup RegistrarUnits :
           RegisterFunction(name, function)

NextNested ==
    \/ RegisterNested
    \/ MainRun
    \/ RunCase
    \/ UnitStatement
    \/ RunRecord
    \/ RunSummary

SpecNested == Init /\ [][NextNested]_vars

(***************************************************************************)
(* The library with unit functions that may never return.  Run() is called *)
(* once; it runs on one thread without suspension, so each of its steps    *)
(* and each step of the unit function it calls is eventually taken.        *)
(***************************************************************************)
SpinUnits ==
    { Unit("spin", << HangStmt >>),
      Unit("spin_after_assert", << AssertTrueStmt("2 + 2 == 4"), HangStmt >>),
      Unit("return_before_spin", << AssertTrueStmt("2 + 2 == 3"), HangStmt >>),
      Unit("spin_after_loop",
           << ForStmt(<< IfStmt("Double(i) != 2 * i", FailStmt) >>), HangStmt >>) }

RegisterSpin ==
    /\ runs = << >>
    /\ \E name \in Names, function \in SampleUnits \cup SpinUnits :
           RegisterFunction(name, function)

RunStep ==
    \/ RunCase
    \/ UnitLoopTest
    \/ UnitStatement
    \/ RunRecord
    \/ RunSummary

NextSpin ==
    \/ RegisterSpin
    \/ MainRun
    \/ RunStep
    \/ UnitHang

SpecSpin == Init /\ [][NextSpin]_vars /\ WF_vars(RunStep)

(***************************************************************************)
(* Reading a trace.                                                        *)
(***************************************************************************)
\* lexicographic order stated on positions: a and b agree before position
\* k, where a ends and b goes on, or a has the smaller character
LexBefore(a, b) ==
    \E k \in 1..Len(b) :
        /\ k <= Len(a) + 1
        /\ \A j \in 1..(k - 1) : a[j] = b[j]
        /\ (k = Len(a) + 1 \/ a[k] < b[k])

\* the calls of a trace, in order, as << name, function >>
CallsOf(tr) ==
    LET calls == SelectSeq(tr, LAMBDA e : e.ev = "call")
    IN  [k \in 1..Len(calls) |-> calls[k].arg]

\* the names the summary of a trace lists as failed
ReportedFailures(tr) ==
    LET lines == SelectSeq(tr, LAMBDA e : e.ev = "print" /\ e.text = "> ")
    IN  [k \in 1..Len(lines) |-> lines[k].arg]

\* the count the summary of a trace gives, as a set (empty when all passed)
ReportedCounts(tr) ==
    { tr[k].arg[1] : k \in { j \in 1..Len(tr) : tr[j].text = "[!!!!] Failed  test cases:" } }

Range(f) == { f[k] : k \in DOMAIN f }

\* what the source of a unit function of sample.cpp says of its outcome
SampleFails(function) ==
    CASE function = Test_Two_Plus_Two -> FALSE
      [] function = Test_Flawed_Two_Plus_Two -> TRUE
      [] function = Test_Double -> \E n \in 0..(LoopCount - 1) : 2 * n # 2 * n
      [] function = Test_Double_Flawed -> LoopCount > FlawFrom

\* the first function registered under a name
FirstRegistered(name) ==
    LET first == CHOOSE k \in 1..Len(regLog) :
                     /\ regLog[k].name = name
                     /\ \A j \in 1..(k - 1) : regLog[j].name # name
    IN  regLog[first].function

(***************************************************************************)
(* C1: a Run() over N cases of which K end with success = false returns    *)
(* false iff K > 0, and the failure list it builds and reports holds       *)
(* exactly the K names of the cases whose result was failure.              *)
(***************************************************************************)
C1_RunResult ==
    \A n \in 1..Len(runs) :
        LET r == runs[n]
            failed == { k \in 1..Len(r.outcomes) : ~ r.outcomes[k].success }
            K == Cardinality(failed)
        IN  /\ Len(r.outcomes) = Cardinality(DOMAIN r.map)
            /\ \A k \in 1..Len(r.outcomes) :
                   r.outcomes[k].success = ~ SampleFails(r.map[r.outcomes[k].name])
            /\ r.ret = (K = 0)
            /\ Len(r.failures) = K
            /\ Range(r.failures) = { r.outcomes[k].name : k \in failed }
            /\ ReportedFailures(r.trace) = r.failures
            /\ ReportedCounts(r.trace) = IF K = 0 THEN {} ELSE { K }

\* a Run() of two cases, one failing and one passing, has returned
C1_Witness ==
    /\ runs # << >>
    /\ Len(runs[1].outcomes) = 2
    /\ Len(runs[1].failures) = 1
    /\ runs[1].ret = FALSE

(***************************************************************************)
(* C2: the catalog binds every registered name to the function of the      *)
(* first registration of that name, and Run() calls that function.         *)
(***************************************************************************)
C2_FirstRegistrationWins ==
    /\ DOMAIN unitfunction_map_ = { regLog[k].name : k \in 1..Len(regLog) }
    /\ \A name \in DOMAIN unitfunction_map_ :
           unitfunction_map_[name] = FirstRegistered(name)
    /\ \A k \in 1..Len(trace) :
           trace[k].ev = "call" => trace[k].arg[2] = FirstRegistered(trace[k].arg[1])

\* a name was registered twice with different functions, and Run() has
\* called the case of that name
C2_Witness ==
    /\ Len(regLog) = 2
    /\ regLog[1].name = regLog[2].name
    /\ regLog[1].function # regLog[2].function
    /\ pc = "idle"
    /\ CallsOf(trace) = << << regLog[1].name, regLog[1].function >> >>

\* C2, the step itself: a registration of a name that is present leaves the
\* catalog as it is (implied by C2_FirstRegistrationWins, checked on its own)
C2_DuplicateIsNoOp ==
    [][(Len(regLog') = Len(regLog) + 1
        /\ regLog'[Len(regLog')].name \in DOMAIN unitfunction_map_)
       => unitfunction_map_' = unitfunction_map_]_vars

(***************************************************************************)
(* C3: a Run() calls the function of every entry of the catalog once, in   *)
(* ascending lexicographic order of the names, whatever the order of the   *)
(* registrations.                                                          *)
(***************************************************************************)
C3_SortedOnce ==
    /\ \A n \in 1..Len(runs) :
           LET calls == CallsOf(runs[n].trace)
           IN  /\ { calls[k][1] : k \in 1..Len(calls) } = DOMAIN runs[n].map
               /\ Len(calls) = Cardinality(DOMAIN runs[n].map)
               /\ \A k \in 1..Len(calls) : calls[k][2] = runs[n].map[calls[k][1]]
    /\ LET calls == CallsOf(trace)
       IN  \A j, k \in 1..Len(calls) : j < k => LexBefore(calls[j][1], calls[k][1])

\* the names were registered in descending order and Run() has called both
C3_Witness ==
    /\ Len(regLog) = 2
    /\ LexBefore(regLog[2].name, regLog[1].name)
    /\ pc = "idle"
    /\ Len(CallsOf(trace)) = 2

(***************************************************************************)
(* C4: a failing case does not end the run: the cases whose names sort     *)
(* after it are called in the same Run(), their outcomes are those of      *)
(* their own functions, and the failure list holds the failing name once.  *)
(***************************************************************************)
C4_FailureIsolated ==
    \A n \in 1..Len(runs) :
        LET r == runs[n]
            calls == CallsOf(r.trace)
        IN  \A f \in 1..Len(r.outcomes) :
                ~ r.outcomes[f].success =>
                    /\ \A name \in DOMAIN r.map :
                           LexBefore(r.outcomes[f].name, name) =>
                               \E k \in 1..Len(calls) : calls[k][1] = name
                    /\ \A k \in 1..Len(r.outcomes) :
                           k # f => r.outcomes[k].success
                                        = ~ SampleFails(r.map[r.outcomes[k].name])
                    /\ Cardinality({ j \in 1..Len(r.failures) :
                                         r.failures[j] = r.outcomes[f].name }) = 1

\* the first case of a Run() failed and the second was called and passed
C4_Witness ==
    /\ runs # << >>
    /\ Len(runs[1].outcomes) = 2
    /\ ~ runs[1].outcomes[1].success
    /\ runs[1].outcomes[2].success
    /\ runs[1].failures = << runs[1].outcomes[1].name >>

(***************************************************************************)
(* Reading the statements a trace executed.                                *)
(***************************************************************************)
\* the number of the case the event at k belongs to
CaseIndex(tr, k) == Cardinality({ c \in 1..k : tr[c].ev = "call" })

\* the function whose call the event at k belongs to
FnAt(tr, k) ==
    LET c == CHOOSE c \in 1..k :
                 tr[c].ev = "call" /\ \A j \in (c + 1)..k : tr[j].ev # "call"
    IN  tr[c].arg[2]

\* the statement the exec event at k executed, and the loop variable then
StmtOf(tr, k) ==
    LET top == FnAt(tr, k).body[tr[k].arg[1]]
    IN  IF top.op = "FOR" THEN top.body[tr[k].arg[2]] ELSE top

LoopVar(tr, k) == tr[k].arg[3]

IsExec(tr, k) == tr[k].ev = "exec"

\* an assertion and whether its expected polarity holds
IsAssert(s) == s.op \in { "ASSERT_TRUE", "ASSERT_FALSE" }

PolarityHolds(s, i) ==
    \/ s.op = "ASSERT_TRUE" /\ Eval(s.cond, i)
    \/ s.op = "ASSERT_FALSE" /\ ~ Eval(s.cond, i)

Violated(s, i) == IsAssert(s) /\ ~ PolarityHolds(s, i)

\* the statement invokes FAIL(), bare or under an if whose condition is true
InvokesFail(s, i) ==
    \/ s.op = "FAIL"
    \/ s.op = "IF" /\ Eval(s.cond, i) /\ s.body[1].op = "FAIL"

\* the statement invokes PASS(), bare or under an if whose condition is true
InvokesPass(s, i) ==
    \/ s.op = "PASS"
    \/ s.op = "IF" /\ Eval(s.cond, i) /\ s.body[1].op = "PASS"

\* no statement of the same call is executed after the event at k
LastExec(tr, k) ==
    \A j \in (k + 1)..Len(tr) :
        IsExec(tr, j) => \E c \in (k + 1)..j : tr[c].ev = "call"

\* the result recorded for the case of the event at k, once it is recorded
Recorded(k, success) ==
    Len(outcomes) >= CaseIndex(trace, k) =>
        /\ outcomes[CaseIndex(trace, k)].success = success
        /\ (outcomes[CaseIndex(trace, k)].name \in Range(failures)) = ~ success

\* the function of the event at k stands returned with this result
ReturnedWith(k, success) ==
    (pc = "call" /\ \A j \in (k + 1)..Len(trace) : trace[j].ev = "print") =>
        frame.done /\ result[1].success = success

\* statements remain after the position of the exec event at k
StatementsFollow(tr, k) ==
    LET top == FnAt(tr, k).body[tr[k].arg[1]]
    IN  \/ tr[k].arg[1] < Len(FnAt(tr, k).body)
        \/ top.op = "FOR" /\ tr[k].arg[2] < Len(top.body)

(***************************************************************************)
(* C5: a violated ASSERT_TRUE or ASSERT_FALSE returns from the unit        *)
(* function: no statement of the case is executed after it, in a loop or   *)
(* not, and the result recorded for the case is failure.                   *)
(***************************************************************************)
C5_ViolatedAssertReturns ==
    \A k \in 1..Len(trace) :
        (IsExec(trace, k) /\ Violated(StmtOf(trace, k), LoopVar(trace, k))) =>
            /\ LastExec(trace, k)
            /\ ReturnedWith(k, FALSE)
            /\ Recorded(k, FALSE)

\* an ASSERT_FALSE inside a loop was violated in a later iteration, with
\* statements after it, and Run() has returned
C5_Witness ==
    /\ pc = "idle"
    /\ \E k \in 1..Len(trace) :
           /\ IsExec(trace, k)
           /\ StmtOf(trace, k).op = "ASSERT_FALSE"
           /\ Violated(StmtOf(trace, k), LoopVar(trace, k))
           /\ trace[k].arg[2] > 0
           /\ LoopVar(trace, k) > 0
           /\ trace[k].arg[1] < Len(FnAt(trace, k).body)
           /\ Len(FnAt(trace, k).body[trace[k].arg[1]].body) > trace[k].arg[2]

(***************************************************************************)
(* C6: an ASSERT_TRUE or ASSERT_FALSE whose expected polarity holds goes   *)
(* on to the next statement, leaves the result as it is and prints         *)
(* nothing.                                                                *)
(***************************************************************************)
C6_HoldingAssertContinues ==
    [][(/\ pc = "call"
        /\ ~ frame.done
        /\ ~ AtLoopTest(frame)
        /\ IsAssert(CurStmt(frame))
        /\ PolarityHolds(CurStmt(frame), frame.i))
       => /\ result' = result
          /\ Len(trace') = Len(trace) + 1
          /\ IsExec(trace', Len(trace'))
          /\ frame'.fn = frame.fn
          /\ IF TopStmt(frame).op = "FOR"
             THEN /\ ~ frame'.done
                  /\ frame'.ip = frame.ip
                  /\ IF frame.lip < Len(TopStmt(frame).body)
                     THEN frame'.lip = frame.lip + 1 /\ frame'.i = frame.i
                     ELSE frame'.lip = 0 /\ frame'.i = frame.i + 1
             ELSE /\ frame'.ip = frame.ip + 1
                  /\ frame'.done = (frame.ip = Len(frame.fn.body))]_vars

\* an ASSERT_FALSE held and the statement after it was executed next
C6_Witness ==
    \E k \in 1..(Len(trace) - 1) :
        /\ IsExec(trace, k)
        /\ StmtOf(trace, k).op = "ASSERT_FALSE"
        /\ PolarityHolds(StmtOf(trace, k), LoopVar(trace, k))
        /\ IsExec(trace, k + 1)
        /\ CaseIndex(trace, k + 1) = CaseIndex(trace, k)

(***************************************************************************)
(* C7: FAIL() returns from the unit function with the result failure: no   *)
(* later iteration of a loop and no later statement is executed.           *)
(***************************************************************************)
C7_FailReturns ==
    \A k \in 1..Len(trace) :
        (IsExec(trace, k) /\ InvokesFail(StmtOf(trace, k), LoopVar(trace, k))) =>
            /\ LastExec(trace, k)
            /\ ReturnedWith(k, FALSE)
            /\ Recorded(k, FALSE)

\* FAIL() was invoked in a loop after an iteration that did not fail, with
\* iterations left and a statement after the loop, and Run() has returned
C7_Witness ==
    /\ pc = "idle"
    /\ \E k \in 1..Len(trace) :
           /\ IsExec(trace, k)
           /\ InvokesFail(StmtOf(trace, k), LoopVar(trace, k))
           /\ trace[k].arg[2] > 0
           /\ LoopVar(trace, k) > 0
           /\ LoopVar(trace, k) + 1 < LoopCount
           /\ trace[k].arg[1] < Len(FnAt(trace, k).body)
           /\ outcomes = << [name |-> UnitName, success |-> FALSE] >>

(***************************************************************************)
(* C8: a case whose function returns without PASS, FAIL or a violated      *)
(* assertion is recorded as success and is not in the failure list.        *)
(***************************************************************************)
C8_DefaultIsSuccess ==
    \A c \in 1..Len(outcomes) :
        (\A k \in 1..Len(trace) :
             (IsExec(trace, k) /\ CaseIndex(trace, k) = c) =>
                 /\ ~ Violated(StmtOf(trace, k), LoopVar(trace, k))
                 /\ ~ InvokesFail(StmtOf(trace, k), LoopVar(trace, k))
                 /\ ~ InvokesPass(StmtOf(trace, k), LoopVar(trace, k)))
        => /\ outcomes[c].success
           /\ outcomes[c].name \notin Range(failures)

\* a unit function with an empty body was run and recorded
C8_Witness ==
    /\ pc = "idle"
    /\ UnitName \in DOMAIN unitfunction_map_
    /\ unitfunction_map_[UnitName].body = << >>
    /\ outcomes = << [name |-> UnitName, success |-> TRUE] >>
    /\ runs # << >>
    /\ runs[1].ret = TRUE

(***************************************************************************)
(* C9: PASS() returns from the unit function with the result success: no   *)
(* statement after it is executed, so a FAIL after it changes nothing.     *)
(***************************************************************************)
C9_PassReturns ==
    \A k \in 1..Len(trace) :
        (IsExec(trace, k) /\ InvokesPass(StmtOf(trace, k), LoopVar(trace, k))) =>
            /\ LastExec(trace, k)
            /\ ReturnedWith(k, TRUE)
            /\ Recorded(k, TRUE)

\* the body PASS(); FAIL(); was run and recorded as success
C9_Witness ==
    /\ pc = "idle"
    /\ UnitName \in DOMAIN unitfunction_map_
    /\ unitfunction_map_[UnitName].body = << PassStmt, FailStmt >>
    /\ outcomes = << [name |-> UnitName, success |-> TRUE] >>

(***************************************************************************)
(* C10: two calls of Run() over the same catalog have the same outcomes    *)
(* per case, the same failure list, the same output and the same return    *)
(* value.                                                                  *)
(***************************************************************************)
C10_RunDeterministic ==
    (Len(runs) = 2 /\ runs[1].map = runs[2].map) =>
        /\ runs[1].outcomes = runs[2].outcomes
        /\ runs[1].failures = runs[2].failures
        /\ runs[1].ret = runs[2].ret
        /\ runs[1].trace = runs[2].trace

\* Run() has returned twice over one catalog of two cases, one of them failing
C10_Witness ==
    /\ Len(runs) = 2
    /\ runs[1].map = runs[2].map
    /\ Len(runs[1].outcomes) = 2
    /\ Len(runs[1].failures) = 1

(***************************************************************************)
(* C11: the entry point calls Run() once and maps its value to the exit    *)
(* code of the process: true to zero, false to non-zero.                   *)
(***************************************************************************)
C11_ExitCodeMapsResult ==
    exitCode # << >> => ((exitCode[1] = 0) <=> runs[1].ret)

(***************************************************************************)
(* C12: every call of a unit function is given a result created with       *)
(* success = true that exists for that call only; what a case starts with  *)
(* and the outcome recorded for it do not depend on earlier cases or on an *)
(* earlier Run().                                                          *)
(***************************************************************************)
C12_FreshResult ==
    /\ (pc = "call" /\ trace[Len(trace)].ev = "call") => result = << [success |-> TRUE] >>
    /\ pc # "call" => result = << >>
    /\ \A k \in 1..Len(outcomes) :
           outcomes[k].success = ~ SampleFails(unitfunction_map_[outcomes[k].name])

\* a unit function has just been called after a case that failed, in a Run()
\* that follows a Run() with a failure
C12_Witness ==
    /\ pc = "call"
    /\ trace[Len(trace)].ev = "call"
    /\ outcomes # << >>
    /\ ~ outcomes[Len(outcomes)].success
    /\ runs # << >>
    /\ runs[1].failures # << >>

\* no unit function of the trace called RegisterFunction
NoNestedRegistration(tr) ==
    \A k \in 1..Len(tr) : tr[k].ev = "exec" => tr[k].text # "REGISTER"

(***************************************************************************)
(* C13: Run() only reads the catalog: while no unit function registers a   *)
(* case the catalog is the one Run() was called with, whatever the         *)
(* outcomes, and every entry comes from a call of RegisterFunction.        *)
(***************************************************************************)
C13_RunReadsOnly ==
    /\ (pc # "idle" /\ NoNestedRegistration(trace)) => unitfunction_map_ = atBegin
    /\ \A n \in 1..Len(runs) :
           NoNestedRegistration(runs[n].trace) => runs[n].map = runs[n].before
    /\ DOMAIN unitfunction_map_ = { regLog[k].name : k \in 1..Len(regLog) }

\* a Run() of two cases, one of them failing, has returned and no unit
\* function registered a case
C13_Witness ==
    /\ runs # << >>
    /\ NoNestedRegistration(runs[1].trace)
    /\ Len(runs[1].outcomes) = 2
    /\ Len(runs[1].failures) = 1

\* the name of the case the event at k belongs to
CaseName(tr, k) == CallsOf(tr)[CaseIndex(tr, k)][1]

\* the exec events of a trace that call RegisterFunction with this name
RegistrationsOf(tr, name) ==
    { k \in 1..Len(tr) :
          /\ tr[k].ev = "exec"
          /\ tr[k].text = "REGISTER"
          /\ StmtOf(tr, k).body[1].name = name }

\* the name was called in the trace
Called(tr, name) == \E c \in 1..Len(CallsOf(tr)) : CallsOf(tr)[c][1] = name

(***************************************************************************)
(* C20: when unit functions call RegisterFunction while Run() iterates,    *)
(* every case is called at most once, every case of the catalog Run() was  *)
(* called with is called, and a case registered under a new name is called *)
(* in the same Run() iff its name sorts after the name of the case that    *)
(* registered it.                                                          *)
(***************************************************************************)
C20_RegistrationDuringRun ==
    /\ \A j, k \in 1..Len(CallsOf(trace)) :
           j # k => CallsOf(trace)[j][1] # CallsOf(trace)[k][1]
    /\ \A n \in 1..Len(runs) :
           LET r == runs[n]
           IN  /\ \A name \in DOMAIN r.before : Called(r.trace, name)
               /\ \A name \in (DOMAIN r.map) \ (DOMAIN r.before) :
                      LET first == CHOOSE k \in RegistrationsOf(r.trace, name) :
                                       \A j \in RegistrationsOf(r.trace, name) : k <= j
                      IN  Called(r.trace, name)
                              <=> LexBefore(CaseName(r.trace, first), name)

\* a case registered during Run() under a new name that sorts after the
\* registering case was called in the same Run()
C20_Witness ==
    /\ runs # << >>
    /\ \E name \in (DOMAIN runs[1].map) \ (DOMAIN runs[1].before) :
           /\ Called(runs[1].trace, name)
           /\ \E k \in RegistrationsOf(runs[1].trace, name) :
                  LexBefore(CaseName(runs[1].trace, k), name)

\* a case registered during Run() under a new name that sorts before the
\* registering case was not called in that Run()
C20_WitnessNotCalled ==
    /\ runs # << >>
    /\ \E name \in (DOMAIN runs[1].map) \ (DOMAIN runs[1].before) :
           /\ ~ Called(runs[1].trace, name)
           /\ \E k \in RegistrationsOf(runs[1].trace, name) :
                  LexBefore(name, CaseName(runs[1].trace, k))

\* every entry of catalog a is an entry of catalog b
SubCatalog(a, b) == \A name \in DOMAIN a : name \in DOMAIN b /\ b[name] = a[name]

(***************************************************************************)
(* C14: registrations and Run() calls share one catalog that only grows:   *)
(* every name ever registered is present and bound to the function of its  *)
(* first registration, and a Run() called afterwards calls it.             *)
(***************************************************************************)
C14_CatalogOnlyGrows ==
    /\ \A k \in 1..Len(regLog) :
           /\ regLog[k].name \in DOMAIN unitfunction_map_
           /\ unitfunction_map_[regLog[k].name] = FirstRegistered(regLog[k].name)
    /\ SubCatalog(atBegin, unitfunction_map_)
    /\ \A n \in 1..Len(runs) :
           /\ SubCatalog(runs[n].before, runs[n].map)
           /\ SubCatalog(runs[n].map, unitfunction_map_)
           /\ \A name \in DOMAIN runs[n].before :
                  << name, runs[n].before[name] >> \in Range(CallsOf(runs[n].trace))
    /\ Len(runs) = 2 => SubCatalog(runs[2].map, runs[1].before)

\* a case was registered between two Run() calls, and the later Run() called
\* the earlier entry and the new one
C14_Witness ==
    /\ Len(runs) = 2
    /\ Cardinality(DOMAIN runs[2].map) = 1
    /\ Cardinality(DOMAIN runs[1].before) = 2
    /\ Len(CallsOf(runs[1].trace)) = 2

(***************************************************************************)
(* The output Run() is to produce, written from the outcomes.              *)
(***************************************************************************)
Line(text, arg) == [ev |-> "print", text |-> text, arg |-> arg]

SeparatorLine ==
    Line("--------------------------------------------------------------------------------",
         << >>)

\* the lines the macros print inside a unit function
MacroLines == { "[    ] Test failed ", "[    ] Test Assert failed: " }

\* the events of Run() itself: its lines and its calls
DriverEvents(tr) ==
    SelectSeq(tr, LAMBDA e : e.ev = "call" \/ (e.ev = "print" /\ e.text \notin MacroLines))

\* a call, with the function left out
CallOf(e) == IF e.ev = "call" THEN [e EXCEPT !.text = "", !.arg = e.arg[1]] ELSE e

Calling(name) == [ev |-> "call", text |-> "", arg |-> name]

\* marker, call and outcome line of each case, in order
RECURSIVE ExpectedCases(_)
ExpectedCases(os) ==
    IF os = << >>
    THEN << >>
    ELSE ExpectedCases(SubSeq(os, 1, Len(os) - 1))
         \o << SeparatorLine,
               Line("[    ] Test case '", os[Len(os)].name),
               Calling(os[Len(os)].name),
               IF os[Len(os)].success
               THEN Line("[    ] Success", << >>)
               ELSE Line("[!!!!] Failure", << >>) >>

\* the names of the failing cases, in order
RECURSIVE FailedNames(_)
FailedNames(os) ==
    IF os = << >>
    THEN << >>
    ELSE FailedNames(SubSeq(os, 1, Len(os) - 1))
         \o (IF os[Len(os)].success THEN << >> ELSE << os[Len(os)].name >>)

ExpectedSummary(os) ==
    << SeparatorLine, SeparatorLine >>
    \o (IF FailedNames(os) = << >>
        THEN << Line("[    ] All tests passed", << >>) >>
        ELSE << Line("[!!!!] Failed  test cases:", << Len(FailedNames(os)) >>) >>
             \o [k \in 1..Len(FailedNames(os)) |-> Line("> ", FailedNames(os)[k])])
    \o << SeparatorLine >>

\* the driver events of a trace, calls without their functions
DriverOutput(tr) == [k \in 1..Len(DriverEvents(tr)) |-> CallOf(DriverEvents(tr)[k])]

\* the statements and the macro lines of a trace lie between a call and the
\* outcome line of its case
InsideCalls(tr) ==
    \A k \in 1..Len(tr) :
        (tr[k].ev = "exec" \/ (tr[k].ev = "print" /\ tr[k].text \in MacroLines)) =>
            \E c \in 1..(k - 1) :
                /\ tr[c].ev = "call"
                /\ \A j \in (c + 1)..k :
                       tr[j].ev = "exec" \/ (tr[j].ev = "print" /\ tr[j].text \in MacroLines)

(***************************************************************************)
(* C15: the output of Run() is ordered: per case the marker with its name, *)
(* then the call, then the outcome line matching the result, before the    *)
(* next marker; the summary comes after all cases and is "All tests        *)
(* passed" iff no case failed, else "Failed N test cases" with N the       *)
(* length of the failure list, followed by exactly those names.            *)
(***************************************************************************)
C15_OutputOrdered ==
    /\ InsideCalls(trace)
    /\ pc = "loop" => DriverOutput(trace) = ExpectedCases(outcomes)
    /\ pc = "call" =>
           DriverOutput(trace) =
               ExpectedCases(outcomes)
               \o << SeparatorLine, Line("[    ] Test case '", unit), Calling(unit) >>
    /\ (pc = "idle" /\ runs # << >>) =>
           /\ DriverOutput(trace) = ExpectedCases(outcomes) \o ExpectedSummary(outcomes)
           /\ FailedNames(outcomes) = runs[1].failures
           /\ trace = runs[1].trace
    /\ (pc = "idle" /\ runs = << >>) => trace = << >>

\* a Run() of a passing and a failing case has printed its summary
C15_Witness ==
    /\ pc = "idle"
    /\ runs # << >>
    /\ Len(outcomes) = 2
    /\ outcomes[1].success
    /\ ~ outcomes[2].success

(***************************************************************************)
(* Whether a call of a unit function returns: the function is run from its *)
(* first statement until it returns or stands at a statement that never    *)
(* completes.                                                              *)
(***************************************************************************)
RECURSIVE RunsToReturn(_, _)
RunsToReturn(fr, r) ==
    IF fr.done
    THEN TRUE
    ELSE IF AtLoopTest(fr)
         THEN RunsToReturn(LoopTest(fr), r)
         ELSE IF CurStmt(fr).op = "HANG"
              THEN FALSE
              ELSE LET e == Effect(CurStmt(fr), fr.i, r)
                   IN  RunsToReturn(IF e.returns THEN Return(fr) ELSE Advance(fr), e.result)

Returns(function) == RunsToReturn(Call(function), UnitFunctionResult)

AllReturn(m) == \A name \in DOMAIN m : Returns(m[name])

\* Run() is inside a unit function that stands at a statement that never completes
Hung == pc = "call" /\ ~ frame.done /\ ~ AtLoopTest(frame) /\ CurStmt(frame).op = "HANG"

\* after the call of a function that never returns Run() calls nothing and
\* prints nothing: what follows is what the function itself does
NothingAfterHang(tr) ==
    \A k \in 1..Len(tr) :
        (tr[k].ev = "call" /\ ~ Returns(tr[k].arg[2])) =>
            \A j \in (k + 1)..Len(tr) :
                tr[j].ev = "exec" \/ (tr[j].ev = "print" /\ tr[j].text \in MacroLines)

C16_Returned ==
    /\ \A n \in 1..Len(runs) :
           /\ runs[n].ret \in BOOLEAN
           /\ AllReturn(runs[n].before)
    /\ NothingAfterHang(trace)

(***************************************************************************)
(* C16: Run() terminates and returns a boolean whenever every registered   *)
(* unit function returns; if some unit function never returns, Run() never *)
(* returns, calls no case after it and prints no summary.                  *)
(***************************************************************************)
C16_TerminatesIffAllReturn ==
    /\ [] C16_Returned
    /\ [][Hung => Hung']_vars
    /\ (pc # "idle" /\ AllReturn(unitfunction_map_)) ~> (pc = "idle" /\ runs # << >>)
    /\ (pc # "idle" /\ ~ AllReturn(unitfunction_map_)) ~> Hung

\* Run() stands in a unit function that never returns, before a case it will
\* never call
C16_Witness ==
    /\ Hung
    /\ MapNext(unitfunction_map_, unit) # End

(***************************************************************************)
(* The diagnostics of a failing case.                                      *)
(***************************************************************************)
AssertLine(condition) == Line("[    ] Test Assert failed: ", << condition >>)
FailLine == Line("[    ] Test failed ", << >>)
FailureMarker == Line("[!!!!] Failure", << >>)

IsAssertLine(e) == e.ev = "print" /\ e.text = "[    ] Test Assert failed: "

\* the events of the case of the event at k that come before it: since its call
BeforeInCase(tr, k) ==
    { j \in 1..(k - 1) : \A c \in j..k : tr[c].ev # "call" }

\* the function has returned and Run() is about to print the outcome line
MarkerPending(k) == Len(trace) = k /\ pc = "call" /\ frame.done /\ ~ result[1].success

(***************************************************************************)
(* C17: a violated assertion emits the 'Test Assert failed' line with the  *)
(* literal source text of its condition, then the 'Test failed' line of    *)
(* FAIL, then, the function having returned, the Failure marker of the     *)
(* case; a bare FAIL() emits 'Test failed' and then the Failure marker,    *)
(* with no assert line in the case.                                        *)
(***************************************************************************)
C17_DiagnosticOrder ==
    \A k \in 1..Len(trace) :
        /\ (IsExec(trace, k) /\ Violated(StmtOf(trace, k), LoopVar(trace, k))) =>
               /\ Len(trace) >= k + 2
               /\ trace[k + 1] = AssertLine(StmtOf(trace, k).cond)
               /\ trace[k + 2] = FailLine
               /\ IF Len(trace) >= k + 3
                  THEN trace[k + 3] = FailureMarker
                  ELSE MarkerPending(k + 2)
        /\ (IsExec(trace, k) /\ InvokesFail(StmtOf(trace, k), LoopVar(trace, k))) =>
               /\ Len(trace) >= k + 1
               /\ trace[k + 1] = FailLine
               /\ IF Len(trace) >= k + 2
                  THEN trace[k + 2] = FailureMarker
                  ELSE MarkerPending(k + 1)
               /\ \A j \in BeforeInCase(trace, k) : ~ IsAssertLine(trace[j])
        /\ IsAssertLine(trace[k]) =>
               /\ k > 1
               /\ IsExec(trace, k - 1)
               /\ Violated(StmtOf(trace, k - 1), LoopVar(trace, k - 1))
        /\ trace[k] = FailLine =>
               /\ k > 1
               /\ \/ IsAssertLine(trace[k - 1])
                  \/ /\ IsExec(trace, k - 1)
                     /\ InvokesFail(StmtOf(trace, k - 1), LoopVar(trace, k - 1))

\* an assertion was violated after statements that printed nothing, and
\* Run() has printed the marker of the case
C17_Witness ==
    \E k \in 2..Len(trace) :
        /\ IsExec(trace, k)
        /\ IsExec(trace, k - 1)
        /\ Violated(StmtOf(trace, k), LoopVar(trace, k))
        /\ Len(trace) >= k + 3
        /\ trace[k + 3] = FailureMarker

\* a bare FAIL() was invoked after an assertion that held, and Run() has
\* printed the marker of the case
C17_WitnessBareFail ==
    \E k \in 2..Len(trace) :
        /\ IsExec(trace, k)
        /\ IsExec(trace, k - 1)
        /\ IsAssert(StmtOf(trace, k - 1))
        /\ StmtOf(trace, k).op = "FAIL"
        /\ Len(trace) >= k + 2
        /\ trace[k + 2] = FailureMarker

(***************************************************************************)
(* C18: Run() over an empty catalog, nothing having been registered, calls *)
(* no unit function, reports 'All tests passed' and returns true.          *)
(***************************************************************************)
C18_EmptyCatalog ==
    /\ (regLog = << >> /\ pc # "idle") =>
           /\ pc = "loop"
           /\ unit = End
           /\ trace = << >>
    /\ \A n \in 1..Len(runs) :
           runs[n].before = EmptyMap =>
               /\ CallsOf(runs[n].trace) = << >>
               /\ runs[n].outcomes = << >>
               /\ runs[n].failures = << >>
               /\ runs[n].trace = << SeparatorLine, SeparatorLine,
                                     Line("[    ] All tests passed", << >>),
                                     SeparatorLine >>
               /\ runs[n].ret = TRUE

\* Run() has returned twice before any registration
C18_Witness ==
    /\ regLog = << >>
    /\ Len(runs) = 2
    /\ pc = "idle"

(***************************************************************************)
(* C19: the failure list Run() builds is a subsequence of the name order   *)
(* of the catalog: at every point of the run and in the summary the        *)
(* failing names are in ascending lexicographic order, none twice.         *)
(***************************************************************************)
Ascending(names) ==
    \A j, k \in 1..Len(names) : j < k => (LexBefore(names[j], names[k]) /\ names[j] # names[k])

C19_FailuresAscending ==
    /\ Ascending(failures)
    /\ Range(failures) \subseteq DOMAIN unitfunction_map_
    /\ Ascending(ReportedFailures(trace))
    /\ pc # "idle" => Range(failures) \subseteq { CallsOf(trace)[k][1] : k \in 1..Len(CallsOf(trace)) }
    /\ \A n \in 1..Len(runs) :
           /\ Ascending(runs[n].failures)
           /\ ReportedFailures(runs[n].trace) = runs[n].failures

\* the names were registered in descending order, both cases failed and the
\* summary has listed them
C19_Witness ==
    /\ Len(regLog) = 2
    /\ LexBefore(regLog[2].name, regLog[1].name)
    /\ runs # << >>
    /\ Len(ReportedFailures(runs[1].trace)) = 2

=============================================================================
